---- MODULE Spec2Model ----
(***************************************************************************)
(* Model of artngame_unity_upgrades_scraper.py: the paginated link        *)
(* collector, the response handler with its three recursive JSON          *)
(* extractors, and main's publisher / batch / persist loop over the three *)
(* append-only files (text, CSV, progress).                               *)
(*                                                                         *)
(* Python values are modelled as tagged records (Null, Str, Obj, List).   *)
(* A dict is the sequence of its <<key, value>> items in iteration order. *)
(* Asset links are the numbers 1..NLinks: link i is the i-th URL in the   *)
(* order sorted() gives them.                                             *)
(***************************************************************************)
EXTENDS Integers, Sequences, FiniteSets, TLC

VARIABLES
    txt,            \* lines of OUTPUT_TXT
    csv,            \* rows of OUTPUT_CSV
    csv_exists,     \* os.path.exists(OUTPUT_CSV)
    progress,       \* lines of PROGRESS_FILE
    processed,      \* main: processed (the set load_processed() returned)
    run,            \* number of the current run of the script
    pc,             \* main's position
    publishers,     \* main: publishers (the list read from publishers.txt)
    pub,            \* index into publishers of the publisher in the loop
    page_num,       \* collect_all_assets_by_url: page_num
    num_assets,     \* collect_all_assets_by_url: num_assets of the last page
    all_links,      \* collect_all_assets_by_url: all_links
    all_assets,     \* main: all_assets (sorted list)
    batch_num,      \* main: batch_num
    results,        \* main: results, one entry per process_asset call
    pages,          \* the asset pages open in the browser context
    idx,            \* main: position of the persist loop in results
    unique_prices,  \* main: unique_prices of the asset being persisted
    pi,             \* position of the loop over unique_prices
    ui,             \* position of the loop over upgrade_from
    response        \* the response last dispatched to handle_response

vars == <<txt, csv, csv_exists, progress, processed, run, pc, publishers, pub, page_num,
          num_assets, all_links, all_assets, batch_num, results, pages, idx,
          unique_prices, pi, ui, response>>

-----------------------------------------------------------------------------
(* Bounds of the model.                                                    *)

\* Asset links the storefront can list.
NLinks == 3
\* Entries of the publishers list.
NPubs == 2
\* The listing page from which on the storefront of the collector-level
\* specification shows fewer than PAGE_SIZE links.
MaxPages == 2
\* Runs of the script (a run after a crash, a failure or a completed run).
MaxRuns == 2
\* Facts one asset's lists can hold (responses stop being delivered beyond it).
MaxFacts == 2
\* Responses dispatched to one handler in the handler-level specification.
MaxResponses == 2
\* BATCH_SIZE is 10 and PAGE_SIZE is 96 in the source; both are scaled down
\* so that full pages and several batches fit into NLinks links.
BATCH_SIZE == 2
PAGE_SIZE == 2

Links == 1..NLinks

-----------------------------------------------------------------------------
(* Python / JSON values.                                                   *)

Null == [t |-> "null"]
Str(s) == [t |-> "str", s |-> s]
Obj(kv) == [t |-> "obj", kv |-> kv]
List(items) == [t |-> "list", items |-> items]

IsDict(v) == v.t = "obj"
IsList(v) == v.t = "list"

\* bool(v) for the values of the model: None, "", {} and [] are falsy.
Truthy(v) ==
    CASE v.t = "null" -> FALSE
      [] v.t = "str"  -> v.s # ""
      [] v.t = "obj"  -> Len(v.kv) > 0
      [] v.t = "list" -> Len(v.items) > 0
      [] OTHER        -> TRUE

\* k in d
HasKey(d, k) == \E i \in 1..Len(d.kv) : d.kv[i][1] = k

\* d.get(k): None when the key is absent.
Get(d, k) ==
    IF HasKey(d, k)
    THEN d.kv[CHOOSE i \in 1..Len(d.kv) : d.kv[i][1] = k][2]
    ELSE Null

\* a or b
Or(a, b) == IF Truthy(a) THEN a ELSE b

Range(s) == {s[i] : i \in 1..Len(s)}

-----------------------------------------------------------------------------
(* The three extractors. Each returns the list its second argument has    *)
(* become after the call.                                                  *)

RECURSIVE extract_offer_rating(_, _), offer_rating_items(_, _, _), offer_rating_list(_, _, _)
extract_offer_rating(data, found_prices) ==
    IF IsDict(data) THEN offer_rating_items(data.kv, 1, found_prices)
    ELSE IF IsList(data) THEN offer_rating_list(data.items, 1, found_prices)
    ELSE found_prices

offer_rating_items(kv, i, found_prices) ==
    IF i > Len(kv) THEN found_prices
    ELSE LET k == kv[i][1]
             v == kv[i][2]
             orig == Get(v, "originalPrice")
             final == Get(v, "finalPrice")
             after ==
                 IF k = "offerRating" /\ IsDict(v)
                 THEN IF Truthy(orig) \/ Truthy(final)
                      THEN Append(found_prices, <<orig, final>>)
                      ELSE found_prices
                 ELSE extract_offer_rating(v, found_prices)
         IN  offer_rating_items(kv, i + 1, after)

offer_rating_list(items, i, found_prices) ==
    IF i > Len(items) THEN found_prices
    ELSE offer_rating_list(items, i + 1, extract_offer_rating(items[i], found_prices))

\* f"https://assetstore.unity.com{url}" if url else ""
StoreUrl(url) == IF Truthy(url) THEN [t |-> "storeurl", path |-> url] ELSE Str("")

\* (name, url) of one upgradeFrom entry
UpgradeEntry(upg) ==
    <<Or(Or(Get(upg, "name"), Get(upg, "title")), Str("Unknown")), StoreUrl(Get(upg, "url"))>>

RECURSIVE upgrade_entries(_, _, _)
upgrade_entries(v, i, upgrades) ==
    IF i > Len(v) THEN upgrades
    ELSE upgrade_entries(v, i + 1,
             IF IsDict(v[i]) THEN Append(upgrades, UpgradeEntry(v[i])) ELSE upgrades)

RECURSIVE extract_upgrade_from(_, _), upgrade_from_items(_, _, _), upgrade_from_list(_, _, _)
extract_upgrade_from(data, upgrades) ==
    IF IsDict(data) THEN upgrade_from_items(data.kv, 1, upgrades)
    ELSE IF IsList(data) THEN upgrade_from_list(data.items, 1, upgrades)
    ELSE upgrades

upgrade_from_items(kv, i, upgrades) ==
    IF i > Len(kv) THEN upgrades
    ELSE LET k == kv[i][1]
             v == kv[i][2]
             after ==
                 IF k \in {"upgradeFrom", "upgradableFrom"}
                 THEN IF IsList(v) THEN upgrade_entries(v.items, 1, upgrades)
                      ELSE IF IsDict(v) THEN Append(upgrades, UpgradeEntry(v))
                      ELSE upgrades
                 ELSE extract_upgrade_from(v, upgrades)
         IN  upgrade_from_items(kv, i + 1, after)

upgrade_from_list(items, i, upgrades) ==
    IF i > Len(items) THEN upgrades
    ELSE upgrade_from_list(items, i + 1, extract_upgrade_from(items[i], upgrades))

RECURSIVE result_names(_, _, _)
result_names(v, i, names) ==
    IF i > Len(v) THEN names
    ELSE result_names(v, i + 1,
             IF IsDict(v[i]) /\ HasKey(v[i], "name")
             THEN Append(names, Get(v[i], "name")) ELSE names)

RECURSIVE extract_asset_name(_, _), asset_name_items(_, _, _), asset_name_list(_, _, _)
extract_asset_name(data, names) ==
    IF IsDict(data) THEN asset_name_items(data.kv, 1, names)
    ELSE IF IsList(data) THEN asset_name_list(data.items, 1, names)
    ELSE names

asset_name_items(kv, i, names) ==
    IF i > Len(kv) THEN names
    ELSE LET k == kv[i][1]
             v == kv[i][2]
             after ==
                 IF k = "results" /\ IsList(v) THEN result_names(v.items, 1, names)
                 ELSE IF k \in {"product", "item"} /\ IsDict(v)
                 THEN IF HasKey(v, "name") THEN Append(names, Get(v, "name")) ELSE names
                 ELSE extract_asset_name(v, names)
         IN  asset_name_items(kv, i + 1, after)

asset_name_list(items, i, names) ==
    IF i > Len(items) THEN names
    ELSE asset_name_list(items, i + 1, extract_asset_name(items[i], names))

-----------------------------------------------------------------------------
(* process_asset and its response handler.                                 *)

\* The strings json.dumps(data) is made of: every key and every string value.
RECURSIVE Strings(_)
Strings(data) ==
    CASE data.t = "str"  -> {data.s}
      [] data.t = "obj"  ->
            UNION {{data.kv[i][1]} \cup Strings(data.kv[i][2]) : i \in 1..Len(data.kv)}
      [] data.t = "list" -> UNION {Strings(data.items[i]) : i \in 1..Len(data.items)}
      [] OTHER           -> {}

\* The words handle_response looks for in the dumped text before it extracts.
FilterWords == {"offerRating", "upgradeFrom", "upgradableFrom", "results", "product"}

\* any(k in text for k in [...]): no string of the model has one of the words
\* as a proper substring, so the substring test is membership.
MentionsKnownKey(data) == Strings(data) \cap FilterWords # {}

\* What process_asset returns for link, before new_page() has completed.
process_asset(link) ==
    [link |-> link, found_prices |-> <<>>, upgrade_from |-> <<>>,
     asset_names |-> <<>>, page |-> "new", goto_task |-> "created"]

\* handle_response(response) on the lists of the asset's entry r.
handle_response(resp, r) ==
    IF resp.content_type = "application/json" /\ MentionsKnownKey(resp.body)
    THEN [r EXCEPT !.found_prices = extract_offer_rating(resp.body, @),
                   !.upgrade_from = extract_upgrade_from(resp.body, @),
                   !.asset_names = extract_asset_name(resp.body, @)]
    ELSE r

-----------------------------------------------------------------------------
(* Formatting of the output lines.                                         *)

LinkUrl(link) == [t |-> "link", n |-> link]
PublisherName(p) == [t |-> "publisher_name", p |-> p]
PublisherUrl(p) == [t |-> "publisher_url", p |-> p]

\* link.split("/")[-1]
Slug(link) == [t |-> "slug", n |-> link]

\* =HYPERLINK("{url}","{label}") with label = label or url
wrap_hyperlink(url, label) == [t |-> "hyperlink", url |-> url, label |-> Or(label, url)]

\* x or 'N/A'
OrNA(x) == Or(x, Str("N/A"))

\* asset_names[0] if asset_names else link.split("/")[-1]
AssetName(r) == IF Len(r.asset_names) > 0 THEN r.asset_names[1] ELSE Slug(r.link)

Header ==
    <<Str("Asset Name"), Str("Original Price"), Str("Final Price"), Str("Upgrade From"),
      Str("Upgrade URL"), Str("Asset URL"), Str("Publisher Name"), Str("Publisher Page")>>

\* The text line of the (price, upgrade) pair the loops stand at.
TxtLine(r, prices, p, u) ==
    IF Len(prices) = 0
    THEN [kind |-> "no_offer", name |-> AssetName(r), link |-> r.link]
    ELSE IF Len(r.upgrade_from) > 0
    THEN [kind |-> "upgrade", name |-> AssetName(r), orig |-> OrNA(prices[p][1]),
          final |-> OrNA(prices[p][2]), upg_name |-> r.upgrade_from[u][1],
          upg_url |-> r.upgrade_from[u][2], link |-> r.link]
    ELSE [kind |-> "price", name |-> AssetName(r), orig |-> OrNA(prices[p][1]),
          final |-> OrNA(prices[p][2]), link |-> r.link]

\* CsvRow with the row of an asset without offer one empty column short.
CsvRowShort(r, prices, p, u, publisher) ==
    LET asset_url_hl == wrap_hyperlink(LinkUrl(r.link), AssetName(r))
        pub_hl == wrap_hyperlink(PublisherUrl(publisher), PublisherName(publisher))
    IN  IF Len(prices) = 0
        THEN <<AssetName(r), Str(""), Str(""), Str(""), asset_url_hl,
               PublisherName(publisher), pub_hl>>
        ELSE IF Len(r.upgrade_from) > 0
        THEN LET upg_name == r.upgrade_from[u][1]
                 upg_url == r.upgrade_from[u][2]
                 upg_url_hl == IF Truthy(upg_url) THEN wrap_hyperlink(upg_url, upg_name)
                               ELSE Str("")
             IN  <<AssetName(r), OrNA(prices[p][1]), OrNA(prices[p][2]), upg_name,
                   upg_url_hl, asset_url_hl, PublisherName(publisher), pub_hl>>
        ELSE <<AssetName(r), OrNA(prices[p][1]), OrNA(prices[p][2]), Str(""), Str(""),
               asset_url_hl, PublisherName(publisher), pub_hl>>

\* The CSV row of the (price, upgrade) pair the loops stand at.
CsvRow(r, prices, p, u, publisher) ==
    LET asset_url_hl == wrap_hyperlink(LinkUrl(r.link), AssetName(r))
        pub_hl == wrap_hyperlink(PublisherUrl(publisher), PublisherName(publisher))
    IN  IF Len(prices) = 0
        THEN <<AssetName(r), Str(""), Str(""), Str(""), Str(""), asset_url_hl,
               PublisherName(publisher), pub_hl>>
        ELSE IF Len(r.upgrade_from) > 0
        THEN LET upg_name == r.upgrade_from[u][1]
                 upg_url == r.upgrade_from[u][2]
                 upg_url_hl == IF Truthy(upg_url) THEN wrap_hyperlink(upg_url, upg_name)
                               ELSE Str("")
             IN  <<AssetName(r), OrNA(prices[p][1]), OrNA(prices[p][2]), upg_name,
                   upg_url_hl, asset_url_hl, PublisherName(publisher), pub_hl>>
        ELSE <<AssetName(r), OrNA(prices[p][1]), OrNA(prices[p][2]), Str(""), Str(""),
               asset_url_hl, PublisherName(publisher), pub_hl>>

-----------------------------------------------------------------------------
(* Helpers of main.                                                        *)

\* sorted(all_links)
RECURSIVE sorted(_)
sorted(S) ==
    IF S = {} THEN <<>>
    ELSE LET m == CHOOSE x \in S : \A y \in S : x <= y
         IN  <<m>> \o sorted(S \ {m})

\* list(batched(iterable, n))
RECURSIVE batched(_, _)
batched(seq, n) ==
    IF Len(seq) = 0 THEN <<>>
    ELSE IF Len(seq) <= n THEN <<seq>>
    ELSE <<SubSeq(seq, 1, n)>> \o batched(SubSeq(seq, n + 1, Len(seq)), n)

\* NotProcessed without the filter.
NotProcessedUnfiltered(batch_links, done) == batch_links

\* [l for l in batch_links if l not in processed]
NotProcessed(batch_links, done) == SelectSeq(batch_links, LAMBDA l : l \notin done)

\* load_processed(): the set of the progress file's lines
load_processed == Range(progress)

\* The lists of the elements of S, each once, in any order.
SetOrders(S) ==
    {s \in [1..Cardinality(S) -> S] : \A i, j \in 1..Cardinality(S) : s[i] = s[j] => i = j}

\* UniquePrices without the set: the list as collected.
UniquePricesNoDedup(found_prices) == {found_prices}

\* list(set(found_prices)) if found_prices else []: the lists set iteration
\* can give.
UniquePrices(found_prices) == SetOrders(Range(found_prices))

\* MoreUpgrades with the loop over upgrade_from outside the test of unique_prices.
MoreUpgradesAlways(prices, upgrade_from, u) == u < Len(upgrade_from)

\* The inner loop over upgrade_from has another entry to write: it runs only
\* inside the loop over unique_prices.
MoreUpgrades(prices, upgrade_from, u) == Len(prices) > 0 /\ u < Len(upgrade_from)

\* The identity of the page process_asset opens for link in the current batch.
PageOf(link) == [pub |-> pub, batch |-> batch_num, link |-> link]

\* ReachedLastPage with <= for <.
ReachedLastPageInclusive(n) == n <= PAGE_SIZE

\* The collector's test for the last page.
ReachedLastPage(n) == n < PAGE_SIZE

NoResponse == [content_type |-> "", body |-> Null, handled |-> TRUE, n |-> 0]

\* The process's memory when it is not running.
Forget ==
    /\ processed' = {}
    /\ publishers' = <<>>
    /\ pub' = 0
    /\ page_num' = 0
    /\ num_assets' = 0
    /\ all_links' = {}
    /\ all_assets' = <<>>
    /\ batch_num' = 0
    /\ results' = <<>>
    /\ pages' = {}
    /\ idx' = 0
    /\ unique_prices' = <<>>
    /\ pi' = 0
    /\ ui' = 0

Files == <<txt, csv, csv_exists, progress>>
Collector == <<page_num, num_assets, all_links>>
Batch == <<all_assets, batch_num, results, pages>>
PersistLoop == <<idx, unique_prices, pi, ui>>

-----------------------------------------------------------------------------
(* main                                                                    *)

Init ==
    /\ txt = <<>>
    /\ csv = <<>>
    /\ csv_exists = FALSE
    /\ progress = <<>>
    /\ processed = {}
    /\ run = 1
    /\ pc = "start"
    /\ publishers = <<>>
    /\ pub = 0
    /\ page_num = 0
    /\ num_assets = 0
    /\ all_links = {}
    /\ all_assets = <<>>
    /\ batch_num = 0
    /\ results = <<>>
    /\ pages = {}
    /\ idx = 0
    /\ unique_prices = <<>>
    /\ pi = 0
    /\ ui = 0
    /\ response = NoResponse

\* Lines 167-188: read the publishers, write the CSV header when the file is
\* missing, load the processed set.
Startup(file) ==
    /\ pc = "start"
    /\ publishers' = file
    /\ csv' = IF ~csv_exists THEN Append(csv, Header) ELSE csv
    /\ csv_exists' = TRUE
    /\ processed' = load_processed
    /\ pub' = 1
    /\ pc' = "publisher"
    /\ UNCHANGED <<txt, progress, run, Collector, Batch, PersistLoop, response>>

\* Lines 219-223 and 108-109: the next publisher's page is opened and the
\* collector starts; after the last publisher the run ends (lines 269-272).
PublisherStart ==
    /\ pc = "publisher"
    /\ IF pub > Len(publishers)
       THEN /\ pc' = "done"
            /\ Forget
       ELSE /\ pc' = "collect"
            /\ all_links' = {}
            /\ page_num' = 1
            /\ UNCHANGED <<processed, publishers, pub, num_assets, Batch, PersistLoop>>
    /\ UNCHANGED <<Files, run, response>>

\* Lines 111-140: one turn of the collector's loop on a listing page that
\* shows page_links.
CollectFetch(page_links) ==
    /\ pc = "collect"
    /\ num_assets' = Cardinality(page_links)
    /\ IF num_assets' = 0
       THEN /\ all_links' = all_links
            /\ page_num' = page_num
            /\ all_assets' = sorted(all_links')
            /\ pc' = "batch"
       ELSE /\ all_links' = all_links \cup page_links
            /\ IF ReachedLastPage(num_assets')
               THEN /\ page_num' = page_num
                    /\ all_assets' = sorted(all_links')
                    /\ pc' = "batch"
               ELSE /\ page_num' = page_num + 1
                    /\ all_assets' = all_assets
                    /\ pc' = "collect"
    /\ batch_num' = 0
    /\ UNCHANGED <<Files, processed, run, publishers, pub, results, pages, PersistLoop,
                   response>>

\* Lines 114 and 222: a listing navigation times out; nothing catches it.
ListingNavigationFails ==
    /\ \/ pc = "collect"
       \/ pc = "publisher" /\ pub <= Len(publishers)
    /\ pc' = "failed"
    /\ UNCHANGED <<Files, processed, run, publishers, pub, Collector, Batch, PersistLoop,
                   response>>

\* Lines 227-233: the next batch, filtered; an empty one is skipped, and
\* after the last one the publisher loop goes on.
NextBatch ==
    /\ pc = "batch"
    /\ LET batches == batched(all_assets, BATCH_SIZE)
       IN  IF batch_num >= Len(batches)
           THEN /\ pub' = pub + 1
                /\ pc' = "publisher"
                /\ UNCHANGED <<batch_num, results>>
           ELSE LET batch_links == NotProcessed(batches[batch_num + 1], processed)
                IN  /\ batch_num' = batch_num + 1
                    /\ pub' = pub
                    /\ IF Len(batch_links) = 0
                       THEN /\ pc' = "batch"
                            /\ results' = results
                       ELSE /\ pc' = "open"
                            /\ results' = [i \in 1..Len(batch_links) |->
                                               process_asset(batch_links[i])]
    /\ UNCHANGED <<Files, processed, run, publishers, Collector, all_assets, pages,
                   PersistLoop, response>>

\* Line 145: one process_asset task gets its page.
OpenPage(i) ==
    /\ pc = "open"
    /\ i \in 1..Len(results)
    /\ results[i].page = "new"
    /\ results' = [results EXCEPT ![i].page = "open"]
    /\ pages' = pages \cup {PageOf(results[i].link)}
    /\ UNCHANGED <<Files, processed, run, pc, publishers, pub, Collector, all_assets,
                   batch_num, PersistLoop, response>>

\* Lines 234-235: the first gather has returned, the second one starts every
\* goto task.
StartNavigation ==
    /\ pc = "open"
    /\ \A i \in 1..Len(results) : results[i].page = "open"
    /\ results' = [i \in 1..Len(results) |-> [results[i] EXCEPT !.goto_task = "pending"]]
    /\ pc' = "nav"
    /\ UNCHANGED <<Files, processed, run, publishers, pub, Collector, all_assets,
                   batch_num, pages, PersistLoop, response>>

\* Line 162: one navigation completes.
NavigationSettles(i) ==
    /\ pc = "nav"
    /\ i \in 1..Len(results)
    /\ results[i].goto_task = "pending"
    /\ results' = [results EXCEPT ![i].goto_task = "done"]
    /\ UNCHANGED <<Files, processed, run, pc, publishers, pub, Collector, all_assets,
                   batch_num, pages, PersistLoop, response>>

\* NavigationFails with the failure kept inside the gather
\* (return_exceptions=True): main goes on.
NavigationFailsSwallowed(i) ==
    /\ pc = "nav"
    /\ i \in 1..Len(results)
    /\ results[i].goto_task = "pending"
    /\ results' = [results EXCEPT ![i].goto_task = "failed"]
    /\ UNCHANGED <<Files, processed, run, pc, publishers, pub, Collector, all_assets,
                   batch_num, pages, PersistLoop, response>>

\* Lines 162 and 235: one navigation times out; gather raises, nothing catches
\* it, and main ends where it stands (leaving `async with` closes the browser).
NavigationFails(i) ==
    /\ pc = "nav"
    /\ i \in 1..Len(results)
    /\ results[i].goto_task = "pending"
    /\ results' = [results EXCEPT ![i].goto_task = "failed"]
    /\ pc' = "failed"
    /\ pages' = {}
    /\ UNCHANGED <<Files, processed, run, publishers, pub, Collector, all_assets,
                   batch_num, PersistLoop, response>>

\* Lines 235-237: every navigation has settled; main sleeps.
Settled ==
    /\ pc = "nav"
    /\ \A i \in 1..Len(results) : results[i].goto_task = "done"
    /\ pc' = "sleep"
    /\ UNCHANGED <<Files, processed, run, publishers, pub, Collector, Batch, PersistLoop,
                   response>>

\* Line 237 to 239: the sleep is over, the persist loop starts.
SleepOver ==
    /\ pc = "sleep"
    /\ idx' = 1
    /\ pc' = "persist"
    /\ UNCHANGED <<Files, processed, run, publishers, pub, Collector, Batch,
                   unique_prices, pi, ui, response>>

\* Lines 147-158: a response of page i reaches its handler while main awaits
\* (the gather, the sleep, a page.close()). Responses of an asset whose rows
\* are written are left out: nothing reads its lists again. cap bounds the
\* lists.
ResponseArrives(i, resp, cap) ==
    /\ pc \in {"nav", "sleep", "close"}
    /\ i \in 1..Len(results)
    /\ results[i].page = "open"
    /\ results[i].goto_task # "created"
    /\ pc = "close" => i > idx
    /\ LET r == handle_response(resp, results[i])
       IN  /\ Len(r.found_prices) <= cap
           /\ Len(r.upgrade_from) <= cap
           /\ Len(r.asset_names) <= cap
           /\ results' = [results EXCEPT ![i] = r]
    /\ UNCHANGED <<Files, processed, run, pc, publishers, pub, Collector, all_assets,
                   batch_num, pages, PersistLoop, response>>

\* Lines 239-243: the loop takes the next asset and builds unique_prices.
PersistAsset ==
    /\ pc = "persist"
    /\ unique_prices' \in UniquePrices(results[idx].found_prices)
    /\ pi' = 1
    /\ ui' = 1
    /\ pc' = "write_txt"
    /\ UNCHANGED <<Files, processed, run, publishers, pub, Collector, Batch, idx,
                   response>>

\* Lines 251, 255, 259: save_txt_line
WriteTxt ==
    /\ pc = "write_txt"
    /\ txt' = Append(txt, TxtLine(results[idx], unique_prices, pi, ui))
    /\ pc' = "write_csv"
    /\ UNCHANGED <<csv, csv_exists, progress, processed, run, publishers, pub, Collector,
                   Batch, PersistLoop, response>>

\* Lines 252, 256, 260: save_csv_row, and the step of the two loops
\* (lines 246 and 248).
WriteCsv ==
    /\ pc = "write_csv"
    /\ csv' = Append(csv, CsvRow(results[idx], unique_prices, pi, ui, publishers[pub]))
    /\ IF MoreUpgrades(unique_prices, results[idx].upgrade_from, ui)
       THEN /\ ui' = ui + 1
            /\ pi' = pi
            /\ pc' = "write_txt"
       ELSE IF pi < Len(unique_prices)
       THEN /\ ui' = 1
            /\ pi' = pi + 1
            /\ pc' = "write_txt"
       ELSE /\ UNCHANGED <<pi, ui>>
            /\ pc' = "mark"
    /\ UNCHANGED <<txt, csv_exists, progress, processed, run, publishers, pub, Collector,
                   Batch, idx, unique_prices, response>>

\* MarkProcessed moved in front of the asset's rows.
MarkProcessedFirst ==
    /\ pc = "write_txt"
    /\ pi = 1
    /\ ui = 1
    /\ results[idx].link \notin Range(progress)
    /\ progress' = Append(progress, results[idx].link)
    /\ UNCHANGED <<txt, csv, csv_exists, processed, run, pc, publishers, pub, Collector,
                   Batch, PersistLoop, response>>

\* Line 263: mark_processed(link)
MarkProcessed ==
    /\ pc = "mark"
    /\ progress' = Append(progress, results[idx].link)
    /\ pc' = "close"
    /\ UNCHANGED <<txt, csv, csv_exists, processed, run, publishers, pub, Collector,
                   Batch, PersistLoop, response>>

\* ClosePage without page.close().
ClosePageLeak ==
    /\ pc = "close"
    /\ results' = [results EXCEPT ![idx].page = "closed"]
    /\ idx' = idx + 1
    /\ pc' = IF idx < Len(results) THEN "persist" ELSE "batch"
    /\ UNCHANGED <<Files, processed, run, publishers, pub, Collector, all_assets,
                   batch_num, pages, unique_prices, pi, ui, response>>

\* Lines 264-267: the asset's page is closed; after the last one of the batch
\* the batch loop goes on.
ClosePage ==
    /\ pc = "close"
    /\ results' = [results EXCEPT ![idx].page = "closed"]
    /\ pages' = pages \ {PageOf(results[idx].link)}
    /\ idx' = idx + 1
    /\ pc' = IF idx < Len(results) THEN "persist" ELSE "batch"
    /\ UNCHANGED <<Files, processed, run, publishers, pub, Collector, all_assets,
                   batch_num, unique_prices, pi, ui, response>>

\* The process is killed while it runs.
Crash ==
    /\ pc \notin {"start", "done", "failed", "crashed"}
    /\ pc' = "crashed"
    /\ Forget
    /\ UNCHANGED <<Files, run, response>>

\* The script is started again.
Restart ==
    /\ pc \in {"done", "failed", "crashed"}
    /\ run < MaxRuns
    /\ run' = run + 1
    /\ pc' = "start"
    /\ Forget
    /\ UNCHANGED <<Files, response>>

-----------------------------------------------------------------------------
(* The program-level specification: runs, crashes and restarts of the     *)
(* script over a storefront with a fixed catalogue of assets without       *)
(* offer.                                                                  *)

\* publishers.txt: NPubs publishers.
PublishersFile == [p \in 1..NPubs |-> p]

\* What listing page k of publisher p can show. Publisher 1 lists every
\* link, PAGE_SIZE to a page; every other publisher lists one link, which
\* publisher 1 lists too.
Storefront(p, k) ==
    IF p = 1
    THEN {{l \in Links : (k - 1) * PAGE_SIZE < l /\ l <= k * PAGE_SIZE}}
    ELSE IF k = 1 THEN {{l} : l \in Links} ELSE {{}}

Shown == IF pc = "collect" THEN Storefront(publishers[pub], page_num) ELSE {}

\* {"upgradeFrom": [{"name": "U", "url": "/packages/u"}]}
UpgradeBody ==
    Obj(<< <<"upgradeFrom", List(<< Obj(<< <<"name", Str("U")>>,
                                           <<"url", Str("/packages/u")>> >>) >>)>> >>)

\* One response that carries a price, an upgrade relation and a name.
FullBody ==
    Obj(<< <<"product", Obj(<< <<"name", Str("A")>> >>)>>,
           <<"offerRating", Obj(<< <<"originalPrice", Str("10")>>,
                                   <<"finalPrice", Str("5")>> >>)>>,
           <<"upgradeFrom", List(<< Obj(<< <<"name", Str("U")>>,
                                           <<"url", Str("/packages/u")>> >>) >>)>> >>)

Json(body) == [content_type |-> "application/json", body |-> body, handled |-> FALSE, n |-> 0]
Html(body) == [content_type |-> "text/html", body |-> body, handled |-> FALSE, n |-> 0]

\* The assets of the program-level specification have no offer: their
\* responses carry upgrade relations only.
MainResponses == {Json(UpgradeBody)}

Next ==
    \/ Startup(PublishersFile)
    \/ PublisherStart
    \/ \E page_links \in Shown : CollectFetch(page_links)
    \/ ListingNavigationFails
    \/ NextBatch
    \/ \E i \in 1..BATCH_SIZE : OpenPage(i)
    \/ StartNavigation
    \/ \E i \in 1..BATCH_SIZE : NavigationSettles(i)
    \/ \E i \in 1..BATCH_SIZE : NavigationFails(i)
    \/ Settled
    \/ SleepOver
    \/ \E i \in 1..BATCH_SIZE, resp \in MainResponses : ResponseArrives(i, resp, MaxFacts)
    \/ PersistAsset
    \/ WriteTxt
    \/ WriteCsv
    \/ MarkProcessed
    \/ ClosePage
    \/ Crash
    \/ Restart

Spec == Init /\ [][Next]_vars

-----------------------------------------------------------------------------
(* The collector-level specification: one run over a storefront whose     *)
(* listing pages show any set of links.                                    *)

\* What a listing page can show: any set of links, and fewer than PAGE_SIZE
\* from page MaxPages on.
Listable == {S \in SUBSET Links : page_num >= MaxPages => Cardinality(S) < PAGE_SIZE}

NextCollector ==
    \/ Startup(PublishersFile)
    \/ PublisherStart
    \/ \E page_links \in Listable : CollectFetch(page_links)
    \/ ListingNavigationFails
    \/ NextBatch
    \/ \E i \in 1..BATCH_SIZE : OpenPage(i)
    \/ StartNavigation
    \/ \E i \in 1..BATCH_SIZE : NavigationSettles(i)
    \/ \E i \in 1..BATCH_SIZE : NavigationFails(i)
    \/ Settled
    \/ SleepOver
    \/ PersistAsset
    \/ WriteTxt
    \/ WriteCsv
    \/ MarkProcessed
    \/ ClosePage

SpecCollector == Init /\ [][NextCollector]_vars

-----------------------------------------------------------------------------
(* The fact-level specification: runs without crashes of one publisher's  *)
(* two assets, whose pages receive any sequence of the responses below.    *)

FactsFile == <<1>>

FactsShown == IF pc = "collect" THEN {IF page_num = 1 THEN {1, 2} ELSE {}} ELSE {}

\* {"product": {"name": "A", "offerRating": {"originalPrice": "10"}}}
PriceNoFinal ==
    Obj(<< <<"product", Obj(<< <<"name", Str("A")>>,
                               <<"offerRating", Obj(<< <<"originalPrice", Str("10")>> >>)>> >>)>> >>)

\* {"offerRating": {"originalPrice": "10", "finalPrice": ""}}
PriceEmptyFinal ==
    Obj(<< <<"offerRating", Obj(<< <<"originalPrice", Str("10")>>,
                                   <<"finalPrice", Str("")>> >>)>> >>)

FactResponses == {Json(PriceNoFinal), Json(PriceEmptyFinal), Json(UpgradeBody)}

NextFacts ==
    \/ Startup(FactsFile)
    \/ PublisherStart
    \/ \E page_links \in FactsShown : CollectFetch(page_links)
    \/ ListingNavigationFails
    \/ NextBatch
    \/ \E i \in 1..BATCH_SIZE : OpenPage(i)
    \/ StartNavigation
    \/ \E i \in 1..BATCH_SIZE : NavigationSettles(i)
    \/ \E i \in 1..BATCH_SIZE : NavigationFails(i)
    \/ Settled
    \/ SleepOver
    \/ \E i \in 1..BATCH_SIZE, resp \in FactResponses : ResponseArrives(i, resp, MaxFacts)
    \/ PersistAsset
    \/ WriteTxt
    \/ WriteCsv
    \/ MarkProcessed
    \/ ClosePage
    \/ Restart

SpecFacts == Init /\ [][NextFacts]_vars

-----------------------------------------------------------------------------
(* The crash-level specification: runs, crashes and restarts of the script *)
(* over one publisher's two assets, whose offer has two upgrade entries.   *)

\* {"offerRating": {"originalPrice": "10", "finalPrice": "5"},
\*  "upgradeFrom": [{"name": "U", "url": "/packages/u"}, {"name": "V"}]}
OfferBody ==
    Obj(<< <<"offerRating", Obj(<< <<"originalPrice", Str("10")>>,
                                   <<"finalPrice", Str("5")>> >>)>>,
           <<"upgradeFrom", List(<< Obj(<< <<"name", Str("U")>>,
                                           <<"url", Str("/packages/u")>> >>),
                                    Obj(<< <<"name", Str("V")>> >>) >>)>> >>)

CrashResponses == {Json(OfferBody)}

NextCrash ==
    \/ Startup(FactsFile)
    \/ PublisherStart
    \/ \E page_links \in FactsShown : CollectFetch(page_links)
    \/ ListingNavigationFails
    \/ NextBatch
    \/ \E i \in 1..BATCH_SIZE : OpenPage(i)
    \/ StartNavigation
    \/ \E i \in 1..BATCH_SIZE : NavigationSettles(i)
    \/ \E i \in 1..BATCH_SIZE : NavigationFails(i)
    \/ Settled
    \/ SleepOver
    \/ \E i \in 1..BATCH_SIZE, resp \in CrashResponses : ResponseArrives(i, resp, MaxFacts)
    \/ PersistAsset
    \/ WriteTxt
    \/ WriteCsv
    \/ MarkProcessed
    \/ ClosePage
    \/ Crash
    \/ Restart

SpecCrash == Init /\ [][NextCrash]_vars

-----------------------------------------------------------------------------
(* The handler-level specification: one open page whose handler is        *)
(* dispatched up to MaxResponses responses with nested bodies.             *)

\* Lines 147-160: the page emits a response event and handle_response is
\* called with it.
Dispatch(resp) ==
    /\ pc = "nav"
    /\ response.handled
    /\ response.n < MaxResponses
    /\ response' = [resp EXCEPT !.n = response.n + 1]
    /\ UNCHANGED <<Files, processed, run, pc, publishers, pub, Collector, Batch,
                   PersistLoop>>

\* Lines 148-158: the handler runs to its end on the dispatched response.
HandleResponse ==
    /\ pc = "nav"
    /\ ~response.handled
    /\ results' = [results EXCEPT ![1] = handle_response(response, @)]
    /\ response' = [response EXCEPT !.handled = TRUE]
    /\ UNCHANGED <<Files, processed, run, pc, publishers, pub, Collector, all_assets,
                   batch_num, pages, PersistLoop>>

\* One key with its value, as it can occur in a response body.
Payloads ==
    { <<"offerRating", Obj(<< <<"originalPrice", Str("10")>>, <<"finalPrice", Str("5")>> >>)>>,
      <<"offerRating", Obj(<< <<"finalPrice", Str("")>> >>)>>,
      <<"upgradeFrom", List(<< Obj(<< <<"name", Str("U")>>, <<"url", Str("/packages/u")>> >>) >>)>>,
      <<"upgradableFrom", Obj(<< <<"title", Str("T")>> >>)>>,
      <<"results", List(<< Obj(<< <<"name", Str("A")>> >>) >>)>>,
      <<"product", Obj(<< <<"name", Str("A")>> >>)>>,
      <<"item", Obj(<< <<"name", Str("B")>> >>)>>,
      <<"other", Str("x")>> }

\* The places a payload can stand at in a body.
Wrap(w, pair) ==
    CASE w = "top"         -> Obj(<<pair>>)
      [] w = "data"        -> Obj(<< <<"data", Obj(<<pair>>)>> >>)
      [] w = "list"        -> List(<< Obj(<<pair>>) >>)
      [] w = "offerRating" -> Obj(<< <<"offerRating", Obj(<< <<"finalPrice", Str("5")>>, pair >>)>> >>)
      [] w = "upgradeFrom" -> Obj(<< <<"upgradeFrom", Obj(<< <<"name", Str("U")>>, pair >>)>> >>)
      [] w = "results"     -> Obj(<< <<"results", List(<< Obj(<<pair>>) >>)>> >>)
      [] w = "product"     -> Obj(<< <<"product", Obj(<<pair>>)>> >>)

Wrappers == {"top", "data", "list", "offerRating", "upgradeFrom", "results", "product"}

NestedBodies == {Wrap(w, pair) : w \in Wrappers, pair \in Payloads}

HandlerResponses == {Json(b) : b \in NestedBodies} \cup {Html(FullBody)}

\* main has opened the page of link 1 and awaits its navigation.
InitHandler ==
    /\ txt = <<>>
    /\ csv = <<Header>>
    /\ csv_exists = TRUE
    /\ progress = <<>>
    /\ processed = {}
    /\ run = 1
    /\ pc = "nav"
    /\ publishers = FactsFile
    /\ pub = 1
    /\ page_num = 1
    /\ num_assets = 1
    /\ all_links = {1}
    /\ all_assets = <<1>>
    /\ batch_num = 1
    /\ results = <<[process_asset(1) EXCEPT !.page = "open", !.goto_task = "pending"]>>
    /\ pages = {[pub |-> 1, batch |-> 1, link |-> 1]}
    /\ idx = 0
    /\ unique_prices = <<>>
    /\ pi = 0
    /\ ui = 0
    /\ response = NoResponse

NextHandler ==
    \/ \E resp \in HandlerResponses : Dispatch(resp)
    \/ HandleResponse

SpecHandler == InitHandler /\ [][NextHandler]_vars

-----------------------------------------------------------------------------
(* Reading the files and the structure of a response body.                 *)

\* The link a CSV row is about (the header row has none).
IsDataRow(row) == Len(row) >= 6 /\ row[6].t = "hyperlink" /\ row[6].url.t = "link"
RowLink(row) == row[6].url.n

CsvRowsOf(l) == SelectSeq(csv, LAMBDA row : IsDataRow(row) /\ RowLink(row) = l)
TxtLinesOf(l) == SelectSeq(txt, LAMBDA line : line.link = l)

\* The asset the persist loop stands at, and the number of rows one of its
\* price pairs is written in.
Cur == results[idx]
Nu == IF Len(Cur.upgrade_from) = 0 THEN 1 ELSE Len(Cur.upgrade_from)

\* Every <<key, value>> item of every dict of data, at any depth.
RECURSIVE Items(_)
Items(data) ==
    CASE data.t = "obj"  ->
            UNION {{data.kv[i]} \cup Items(data.kv[i][2]) : i \in 1..Len(data.kv)}
      [] data.t = "list" -> UNION {Items(data.items[i]) : i \in 1..Len(data.items)}
      [] OTHER           -> {}

\* Every offerRating object with a price, anywhere in data.
AllOfferRatings(data) ==
    {<<Get(it[2], "originalPrice"), Get(it[2], "finalPrice")>> :
        it \in {x \in Items(data) :
                  /\ x[1] = "offerRating"
                  /\ IsDict(x[2])
                  /\ Truthy(Get(x[2], "originalPrice")) \/ Truthy(Get(x[2], "finalPrice"))}}

\* Every upgradeFrom / upgradableFrom entry, anywhere in data.
AllUpgrades(data) ==
    UNION {IF IsDict(it[2]) THEN {UpgradeEntry(it[2])}
           ELSE IF IsList(it[2])
           THEN {UpgradeEntry(it[2].items[i]) :
                    i \in {j \in 1..Len(it[2].items) : IsDict(it[2].items[j])}}
           ELSE {} :
           it \in {x \in Items(data) : x[1] \in {"upgradeFrom", "upgradableFrom"}}}

\* Every name under a results / product / item key, anywhere in data.
AllNames(data) ==
    UNION {IF it[1] = "results" /\ IsList(it[2])
           THEN {Get(it[2].items[i], "name") :
                    i \in {j \in 1..Len(it[2].items) :
                             IsDict(it[2].items[j]) /\ HasKey(it[2].items[j], "name")}}
           ELSE IF it[1] \in {"product", "item"} /\ IsDict(it[2]) /\ HasKey(it[2], "name")
           THEN {Get(it[2], "name")}
           ELSE {} :
           it \in Items(data)}

-----------------------------------------------------------------------------
(* C1 (Spec). Stated as claimed: an asset whose link is in the progress    *)
(* file is never visited again. Every entry of results whose link is       *)
(* marked has its page closed, or is the asset just marked whose page is   *)
(* about to be closed. The code loads processed once, at startup, so a     *)
(* later publisher of the same run that lists the link opens it again.     *)
C1_NeverRevisited ==
    \A i \in 1..Len(results) :
        results[i].link \in Range(progress) =>
            results[i].page = "closed" \/ (pc = "close" /\ i = idx)

(* C2 (Spec). Links load_processed() returned at startup are excluded      *)
(* from every batch: no entry of results is for such a link, no text       *)
(* line, CSV row or marker is appended for one, and a batch whose links    *)
(* are all processed is skipped without opening a page.                    *)
C2_ProcessedExcluded ==
    /\ [](\A i \in 1..Len(results) : results[i].link \notin processed)
    /\ [][/\ txt' # txt => txt'[Len(txt')].link \notin processed
          /\ csv' # csv /\ pc # "start" => RowLink(csv'[Len(csv')]) \notin processed
          /\ progress' # progress => progress'[Len(progress')] \notin processed
          /\ ( /\ pc = "batch"
               /\ batch_num' = batch_num + 1
               /\ Range(batched(all_assets, BATCH_SIZE)[batch_num']) \subseteq processed )
             => pc' = "batch" /\ results' = results /\ pages' = pages]_vars

\* A batch of a later run with one link filtered out and one left to open.
C2_Witness ==
    /\ pc = "open"
    /\ processed # {}
    /\ Len(results) < Len(batched(all_assets, BATCH_SIZE)[batch_num])

(* C3 (SpecCollector). The collector fetches pages 1, 2, ... in order and  *)
(* goes on to page k+1 exactly when page k showed at least PAGE_SIZE       *)
(* links; a page with fewer (zero included) ends the collection.           *)
C3_StopsAtShortPage ==
    /\ [](pc = "collect" => page_num = 1 \/ num_assets >= PAGE_SIZE)
    /\ [][pc = "collect" /\ pc' # "failed" =>
            /\ num_assets' >= PAGE_SIZE <=> (pc' = "collect" /\ page_num' = page_num + 1)
            /\ num_assets' < PAGE_SIZE <=> (pc' = "batch" /\ page_num' = page_num)]_vars

\* Page 1 showed exactly PAGE_SIZE links and page 2 is about to be fetched.
C3_Witness == pc = "collect" /\ page_num = 2 /\ num_assets = PAGE_SIZE

(* C4 (SpecFacts). Stated as claimed: when all rows of an asset are        *)
(* written, the rows of any one upgrade entry (every Nu-th row of the      *)
(* asset) never show the same original / final price values twice.         *)
C4_NoRepeatedPrices ==
    pc = "mark" =>
        LET rows == CsvRowsOf(Cur.link)
        IN  \A j, k \in 1..Len(rows) :
                j < k /\ (k - j) % Nu = 0 =>
                    <<rows[j][2], rows[j][3]>> # <<rows[k][2], rows[k][3]>>

(* C4 (SpecFacts), amended. The pairs are deduplicated as collected: when  *)
(* all rows of an asset with prices are written, each upgrade entry has    *)
(* one row for each distinct collected pair and no other, showing the      *)
(* pair with N/A for a missing or empty price.                             *)
C4_DistinctPairsWritten ==
    pc = "mark" /\ Len(Cur.found_prices) > 0 =>
        LET rows == CsvRowsOf(Cur.link)
            pairs == Range(Cur.found_prices)
        IN  /\ Len(rows) = Cardinality(pairs) * Nu
            /\ \A u \in 1..Nu : \E order \in SetOrders(pairs) :
                   \A p \in 1..Len(order) :
                       <<rows[(p - 1) * Nu + u][2], rows[(p - 1) * Nu + u][3]>>
                           = <<OrNA(order[p][1]), OrNA(order[p][2])>>

\* The same pair was collected twice for the asset whose rows are written.
C4_Witness ==
    /\ pc = "mark"
    /\ Len(Cur.found_prices) = 2
    /\ Cardinality(Range(Cur.found_prices)) = 1

(* C5 (SpecFacts). Every row of the CSV file has 8 columns in the header's *)
(* order: asset name, the two prices, upgrade name, upgrade link, asset    *)
(* link labelled with the asset name, publisher name, publisher link. The  *)
(* header is the first row and no other: a run that finds the file does    *)
(* not write it again.                                                     *)
C5_EightColumns ==
    /\ csv_exists => Len(csv) > 0
    /\ \A i \in 1..Len(csv) :
        LET row == csv[i]
        IN  /\ Len(row) = 8
            /\ (row = Header) <=> (i = 1)
            /\ i > 1 =>
                /\ IsDataRow(row)
                /\ row[6].label = Or(row[1], row[6].url)
                /\ row[2].t = "str" /\ row[3].t = "str" /\ row[4].t = "str"
                /\ row[2] = Str("") <=> row[3] = Str("")
                /\ row[2] = Str("") => row[4] = Str("") /\ row[5] = Str("")
                /\ \/ row[5] = Str("")
                   \/ /\ row[5].t = "hyperlink"
                      /\ row[5].url.t = "storeurl"
                      /\ row[5].label = row[4]
                /\ row[7].t = "publisher_name"
                /\ row[8] = wrap_hyperlink(PublisherUrl(row[7].p), row[7])

\* A second run has found the file, which holds a row with an upgrade and a
\* row without offer.
C5_Witness ==
    /\ run = 2
    /\ pc = "publisher"
    /\ \E i, j \in 2..Len(csv) : csv[i][5] # Str("") /\ csv[j][2] = Str("")

(* C6 (SpecCrash). Rows come before the marker: every marked link has a    *)
(* text line and a CSV row, and the step that appends a marker appends it  *)
(* for the asset all of whose text lines and CSV rows (one, or one for     *)
(* each price pair and upgrade entry) are the last ones written.           *)
C6_RowsBeforeMarker ==
    /\ [](\A l \in Range(progress) : Len(TxtLinesOf(l)) > 0 /\ Len(CsvRowsOf(l)) > 0)
    /\ [][progress' # progress =>
            LET n == IF Len(unique_prices) = 0 THEN 1 ELSE Len(unique_prices) * Nu
            IN  /\ progress' = Append(progress, Cur.link)
                /\ UNCHANGED <<txt, csv>>
                /\ Len(txt) >= n
                /\ Len(csv) > n
                /\ \A k \in 0..(n - 1) :
                      /\ txt[Len(txt) - k].link = Cur.link
                      /\ IsDataRow(csv[Len(csv) - k])
                      /\ RowLink(csv[Len(csv) - k]) = Cur.link]_vars

\* The first run was killed between the second text line and the second
\* CSV row of an asset with two rows; the second run has written both rows
\* of the asset again and is about to mark it.
C6_Witness ==
    /\ run = 2
    /\ pc = "mark"
    /\ Cur.link \notin Range(progress)
    /\ Len(TxtLinesOf(Cur.link)) = 4
    /\ Len(CsvRowsOf(Cur.link)) = 3

(* C7 (Spec). A failed navigation ends the run: it leaves main in "failed" *)
(* at once, nothing is written from the opening of a batch's pages to the  *)
(* end of its navigations, and from "failed" the only step is a new run of *)
(* the script, which leaves the files as they are.                         *)
C7_NavigationFailureAborts ==
    /\ []((\E i \in 1..Len(results) : results[i].goto_task = "failed") => pc = "failed")
    /\ [][/\ pc \in {"open", "nav"} => UNCHANGED <<txt, csv, progress>>
          /\ pc = "failed" =>
                /\ UNCHANGED <<txt, csv, progress>>
                /\ run' = run + 1
                /\ pc' = "start"]_vars

\* One navigation of a batch has succeeded and another has failed, after
\* output was written.
C7_Witness ==
    /\ pc = "failed"
    /\ Len(txt) > 0
    /\ \E i, j \in 1..Len(results) :
          results[i].goto_task = "failed" /\ results[j].goto_task = "done"

(* C8 (SpecHandler). Stated as claimed: after the handler has run on a     *)
(* JSON response, every offerRating with a price, every upgrade entry and  *)
(* every name under results / product / item of the body, at any depth, is *)
(* in the asset's lists.                                                   *)
C8_AllMatchesCollected ==
    response.handled /\ response.content_type = "application/json" =>
        /\ AllOfferRatings(response.body) \subseteq Range(results[1].found_prices)
        /\ AllUpgrades(response.body) \subseteq Range(results[1].upgrade_from)
        /\ AllNames(response.body) \subseteq Range(results[1].asset_names)

(* C9 (SpecFacts). When the rows of an asset are written, it has as many   *)
(* text lines as CSV rows: one, with empty price and upgrade columns, when *)
(* no price pair was collected, whatever upgrades were; otherwise one for  *)
(* each distinct pair and each upgrade entry (or one per pair without      *)
(* upgrades). The asset is then marked.                                    *)
C9_RowCounts ==
    pc \in {"mark", "close"} =>
        LET rows == CsvRowsOf(Cur.link)
            lines == TxtLinesOf(Cur.link)
            np == Cardinality(Range(Cur.found_prices))
        IN  /\ Len(rows) = Len(lines)
            /\ IF np = 0
               THEN /\ Len(rows) = 1
                    /\ lines[1].kind = "no_offer"
                    /\ \A c \in 2..5 : rows[1][c] = Str("")
               ELSE Len(rows) = np * Nu
            /\ pc = "close" => Len(progress) > 0 /\ progress[Len(progress)] = Cur.link

\* An asset with two upgrade entries and no price has been written and marked.
C9_Witness ==
    /\ pc = "close"
    /\ Len(Cur.found_prices) = 0
    /\ Len(Cur.upgrade_from) = 2

(* C10 (Spec). At most BATCH_SIZE asset pages are open, all of the batch   *)
(* main stands at; rows and markers are written only when every navigation *)
(* of the batch is done, by steps of main that leave the assets' lists     *)
(* alone; and a batch's pages are opened only when no page is open.        *)
C10_BatchesDoNotOverlap ==
    /\ [](/\ Cardinality(pages) <= BATCH_SIZE
          /\ \A p \in pages : p.pub = pub /\ p.batch = batch_num
          /\ pc \in {"persist", "write_txt", "write_csv", "mark", "close"} =>
                \A i \in 1..Len(results) : results[i].goto_task = "done")
    /\ [][/\ <<txt, csv, progress>>' # <<txt, csv, progress>> /\ pc # "start" =>
                /\ pc \in {"write_txt", "write_csv", "mark"}
                /\ results' = results
                /\ \A i \in 1..Len(results) : results[i].goto_task = "done"
          /\ pc = "batch" /\ pc' = "open" => pages = {}]_vars

\* The second batch of the first publisher has a page open, after the first
\* batch was written.
C10_Witness ==
    /\ run = 1
    /\ pub = 1
    /\ batch_num = 2
    /\ pages # {}
    /\ Cardinality(Range(progress)) = BATCH_SIZE

====
